---- MODULE Spec2Model ----
(***************************************************************************)
(* Flight-booking simulation of src/final.py: the seat map of a Flight,    *)
(* the FlightManager registry (flights, passengers, tickets) and its       *)
(* book_flight transaction.                                                *)
(*                                                                         *)
(* Python objects live in per-class heaps (sequences of records); a        *)
(* reference is the 1-based index of the object in its heap, None is 0.    *)
(* A Python dict is a sequence of <<key, value>> pairs in insertion order. *)
(* A Python str built by an f-string is a sequence of one-character        *)
(* strings, so that formatting is computed and not assumed injective.      *)
(***************************************************************************)
EXTENDS Integers, Sequences, FiniteSets, TLC

VARIABLES
    flightObjs,     \* heap of Flight objects
    passengerObjs,  \* heap of Passenger objects
    paymentObjs,    \* heap of Payment objects
    ticketObjs,     \* heap of Ticket objects
    flights,        \* FlightManager.flights  : dict flight_number -> Flight
    passengers,     \* FlightManager.passengers : dict passenger_id -> Passenger
    tickets,        \* FlightManager.tickets  : dict ticket_number -> Ticket
    call,           \* the last sequential call: its number, operation, arguments, return value
    threads,        \* per thread: position in book_flight, arguments, locals, return value
    ui              \* InteractiveBooking: position in run_booking_process, attributes, locals

vars == <<flightObjs, passengerObjs, paymentObjs, ticketObjs,
          flights, passengers, tickets, call, threads, ui>>

heapVars == <<flightObjs, passengerObjs, paymentObjs, ticketObjs>>
registryVars == <<flights, passengers, tickets>>

-----------------------------------------------------------------------------
(* Bounds of the model *)

\* calls made by the sequential driver
MaxCalls == 5
\* threads running book_flight concurrently
NThreads == 2
\* the years 0..MaxYear are given to Year_checker.py
MaxYear == 400

(* Program constants *)

RowStart == 1
RowStop == 31
Price == 200

Letters == <<"A", "B", "C", "D", "E", "F">>

None == 0

-----------------------------------------------------------------------------
(* Python str formatting *)

Digits == <<"0", "1", "2", "3", "4", "5", "6", "7", "8", "9">>

\* str(n) for n >= 0, as the sequence of its decimal digits
RECURSIVE Str(_)
Str(n) ==
    IF n < 10 THEN <<Digits[n + 1]>>
    ELSE Str(n \div 10) \o <<Digits[(n % 10) + 1]>>

\* f"{row}{letter}"
SeatNumber(row, letter) == Str(row) \o <<letter>>

\* f"TKT{n}"
TicketNumber(n) == <<"T", "K", "T">> \o Str(n)

-----------------------------------------------------------------------------
(* Python dict, insertion ordered *)

DictKeys(d) == {d[i][1] : i \in 1..Len(d)}

DictIndex(d, k) == CHOOSE i \in 1..Len(d) : d[i][1] = k

\* d.get(k): None when the key is absent
DictGet(d, k) == IF k \in DictKeys(d) THEN d[DictIndex(d, k)][2] ELSE None

\* faulty variant: an existing key is removed and added again at the end
DictSet_moves_to_end(d, k, v) ==
    Append(SelectSeq(d, LAMBDA e : e[1] # k), <<k, v>>)

\* d[k] = v: an existing key keeps its position, a new key goes last
DictSet(d, k, v) ==
    IF k \in DictKeys(d)
    THEN [d EXCEPT ![DictIndex(d, k)] = <<k, v>>]
    ELSE Append(d, <<k, v>>)

\* d.values()
DictValues(d) == [i \in 1..Len(d) |-> d[i][2]]

\* seats[k] = v on a seat map (a dict whose order is not observed here)
MapSet(m, k, v) == (k :> v) @@ m

-----------------------------------------------------------------------------
(* class Flight *)

\* range(start, stop)
Range(start, stop) == start..(stop - 1)

\* the seat numbers the loops of _initialize_seats assign, for rows start..stop-1
SeatNumbersOfRows(start, stop) ==
    {SeatNumber(row, Letters[i]) : row \in Range(start, stop), i \in 1..Len(Letters)}

\* faulty variant: the row loop stops one row early
initialize_seats_short == [seat_number \in SeatNumbersOfRows(RowStart, RowStop - 1) |-> TRUE]

\* _initialize_seats: every key assigned by the two loops maps to True
initialize_seats == [seat_number \in SeatNumbersOfRows(RowStart, RowStop) |-> TRUE]

\* Flight(flight_number, origin, destination, ...)
NewFlight(flight_number, origin, destination) ==
    [flight_number |-> flight_number,
     origin        |-> origin,
     destination   |-> destination,
     seats         |-> initialize_seats]

\* faulty variant: seats.get(seat_number, True)
is_seat_available_default_true(flight, seat_number) ==
    IF seat_number \in DOMAIN flight.seats THEN flight.seats[seat_number] ELSE TRUE

is_seat_available(flight, seat_number) ==
    IF seat_number \in DOMAIN flight.seats THEN flight.seats[seat_number] ELSE FALSE

\* faulty variant: the seat is marked but True is not returned
book_seat_returns_false(flight, seat_number) ==
    IF seat_number \in DOMAIN flight.seats /\ flight.seats[seat_number]
    THEN [self |-> [flight EXCEPT !.seats = MapSet(flight.seats, seat_number, FALSE)],
          ret  |-> FALSE]
    ELSE [self |-> flight, ret |-> FALSE]

\* faulty variant: the seat map is rebuilt with only this seat taken
book_seat_rebuilds(flight, seat_number) ==
    IF seat_number \in DOMAIN flight.seats /\ flight.seats[seat_number]
    THEN [self |-> [flight EXCEPT !.seats = [s \in DOMAIN flight.seats |-> s # seat_number]],
          ret  |-> TRUE]
    ELSE [self |-> flight, ret |-> FALSE]

\* faulty variant: no availability check before the write
book_seat_unchecked(flight, seat_number) ==
    [self |-> [flight EXCEPT !.seats = MapSet(flight.seats, seat_number, FALSE)],
     ret  |-> TRUE]

\* faulty variant: the availability test is inverted
book_seat_inverted(flight, seat_number) ==
    IF ~(seat_number \in DOMAIN flight.seats /\ flight.seats[seat_number])
    THEN [self |-> [flight EXCEPT !.seats = MapSet(flight.seats, seat_number, FALSE)],
          ret  |-> TRUE]
    ELSE [self |-> flight, ret |-> FALSE]

\* faulty variant: True is returned without marking the seat
book_seat_no_write(flight, seat_number) ==
    IF seat_number \in DOMAIN flight.seats /\ flight.seats[seat_number]
    THEN [self |-> flight, ret |-> TRUE]
    ELSE [self |-> flight, ret |-> FALSE]

\* faulty variant: every seat of the map is listed
get_available_seats_all(flight) == DOMAIN flight.seats

\* get_available_seats, as the set of the seats in the returned list
get_available_seats(flight) == {seat \in DOMAIN flight.seats : flight.seats[seat]}

\* book_seat: the Flight after the call and the value returned
book_seat(flight, seat_number) ==
    IF is_seat_available(flight, seat_number)
    THEN [self |-> [flight EXCEPT !.seats = MapSet(flight.seats, seat_number, FALSE)],
          ret  |-> TRUE]
    ELSE [self |-> flight, ret |-> FALSE]

-----------------------------------------------------------------------------
(* class Passenger, class Payment, class Ticket *)

NewPassenger(passenger_id) == [passenger_id |-> passenger_id, tickets |-> <<>>]

\* faulty variant: the ticket is not appended
add_ticket_dropped(passenger, ticket) == passenger

\* Passenger.add_ticket
add_ticket(passenger, ticket) ==
    [passenger EXCEPT !.tickets = Append(passenger.tickets, ticket)]

\* Payment(amount, payment_method); processed counts the calls of process on
\* the object
NewPayment(payment_method) ==
    [amount |-> Price, payment_method |-> payment_method, status |-> "PENDING",
     processed |-> 0]

\* faulty variant: True is returned without setting the status
process_keeps_pending(payment) ==
    [self |-> [payment EXCEPT !.processed = @ + 1], ret |-> TRUE]

\* faulty variant: the payment is declined
process_fails(payment) ==
    [self |-> [payment EXCEPT !.status = "FAILED", !.processed = @ + 1], ret |-> FALSE]

\* Payment.process: the Payment after the call and the value returned
process(payment) ==
    [self |-> [payment EXCEPT !.status = "COMPLETED", !.processed = @ + 1], ret |-> TRUE]

\* faulty variant: every ticket is CONFIRMED
NewTicket_always_confirmed(ticket_number, flight, passenger, seat_number, payment, payment_status) ==
    [ticket_number |-> ticket_number,
     flight        |-> flight,
     passenger     |-> passenger,
     seat_number   |-> seat_number,
     payment       |-> payment,
     status        |-> "CONFIRMED"]

\* Ticket(ticket_number, flight, passenger, seat_number, payment); payment_status
\* is payment.status at construction
NewTicket(ticket_number, flight, passenger, seat_number, payment, payment_status) ==
    [ticket_number |-> ticket_number,
     flight        |-> flight,
     passenger     |-> passenger,
     seat_number   |-> seat_number,
     payment       |-> payment,
     status        |-> IF payment_status = "COMPLETED" THEN "CONFIRMED" ELSE "PENDING"]

-----------------------------------------------------------------------------
(* Inputs *)

FlightNumbers == {"FL101", "FL102"}

\* the cities of the airports of main(), each a str
NewYork == <<"N", "e", "w", " ", "Y", "o", "r", "k">>
London == <<"L", "o", "n", "d", "o", "n">>
Paris == <<"P", "a", "r", "i", "s">>

\* main(): the route of each sample flight, as origin and destination city
Route(flight_number) ==
    IF flight_number = "FL101" THEN <<NewYork, London>> ELSE <<London, Paris>>

PassengerIds == {"P1", "P2"}

PaymentMethods == {"credit_card"}

\* the first and the last seat of the seat map, and one seat no flight has
SeatChoices == {SeatNumber(RowStart, "A"), SeatNumber(RowStop - 1, "F")}
UnknownSeat == SeatNumber(RowStop, "A")
SeatInputs == SeatChoices \cup {UnknownSeat}

Threads == 1..NThreads

IdleThread ==
    [pc |-> "idle", passenger_id |-> "", flight_number |-> "", seat_number |-> <<>>,
     payment_method |-> "", passenger |-> None, flight |-> None, payment |-> None,
     ticket_number |-> <<>>, ticket |-> None, result |-> None]

\* InteractiveBooking(manager) before run_booking_process
\* created is the set of Payment objects constructed since the run started
IdleUi ==
    [pc |-> "idle", run |-> 0, current_passenger |-> None, selected_flight |-> None,
     available_seats |-> {}, seat |-> <<>>, payment |-> None, ticket |-> None,
     created |-> {}]

-----------------------------------------------------------------------------
(* Sequential execution: one action per call *)

Init ==
    /\ flightObjs = <<>>
    /\ passengerObjs = <<>>
    /\ paymentObjs = <<>>
    /\ ticketObjs = <<>>
    /\ flights = <<>>
    /\ passengers = <<>>
    /\ tickets = <<>>
    /\ call = [n |-> 0, op |-> "init", args |-> <<>>, result |-> None]
    /\ threads = [t \in Threads |-> IdleThread]
    /\ ui = IdleUi

\* manager.add_flight(Flight(flight_number, ...))
AddFlight(flight_number) ==
    /\ call.n < MaxCalls
    /\ LET flight == Len(flightObjs) + 1
       IN /\ flightObjs' = Append(flightObjs,
                NewFlight(flight_number, Route(flight_number)[1], Route(flight_number)[2]))
          /\ flights' = DictSet(flights, flight_number, flight)
    /\ call' = [n |-> call.n + 1, op |-> "add_flight", args |-> <<flight_number>>, result |-> None]
    /\ UNCHANGED <<passengerObjs, paymentObjs, ticketObjs, passengers, tickets, threads, ui>>

\* manager.add_passenger(Passenger(passenger_id, ...))
AddPassenger(passenger_id) ==
    /\ call.n < MaxCalls
    /\ LET passenger == Len(passengerObjs) + 1
       IN /\ passengerObjs' = Append(passengerObjs, NewPassenger(passenger_id))
          /\ passengers' = DictSet(passengers, passenger_id, passenger)
    /\ call' = [n |-> call.n + 1, op |-> "add_passenger", args |-> <<passenger_id>>, result |-> None]
    /\ UNCHANGED <<flightObjs, paymentObjs, ticketObjs, flights, tickets, threads, ui>>

\* flight.book_seat(seat_number) on a Flight object
BookSeat(flight, seat_number) ==
    /\ call.n < MaxCalls
    /\ flight \in 1..Len(flightObjs)
    /\ LET r == book_seat(flightObjs[flight], seat_number)
       IN /\ flightObjs' = [flightObjs EXCEPT ![flight] = r.self]
          /\ call' = [n |-> call.n + 1, op |-> "book_seat", args |-> <<flight, seat_number>>, result |-> r.ret]
    /\ UNCHANGED <<passengerObjs, paymentObjs, ticketObjs, registryVars, threads, ui>>

\* faulty variant: the ticket count is not incremented
MintTicketNumber_no_increment(table) == TicketNumber(Len(table))

\* the ticket number minted by book_flight from the ticket table
MintTicketNumber(table) == TicketNumber(Len(table) + 1)

\* FlightManager.book_flight; the return value is call'.result
book_flight(passenger_id, flight_number, seat_number, payment_method) ==
    LET passenger == DictGet(passengers, passenger_id)
        flight == DictGet(flights, flight_number)
        args == <<passenger_id, flight_number, seat_number, payment_method>>
        ReturnNone ==
            /\ call' = [n |-> call.n + 1, op |-> "book_flight", args |-> args, result |-> None]
    IN
    /\ call.n < MaxCalls
    /\ IF passenger = None \/ flight = None
       THEN ReturnNone /\ UNCHANGED <<heapVars, registryVars>>
       ELSE IF ~is_seat_available(flightObjs[flight], seat_number)
       THEN ReturnNone /\ UNCHANGED <<heapVars, registryVars>>
       ELSE
         LET payment == Len(paymentObjs) + 1
             paid == process(NewPayment(payment_method))
             booked == book_seat(flightObjs[flight], seat_number)
         IN
         /\ paymentObjs' = Append(paymentObjs, paid.self)
         /\ IF paid.ret
            THEN
              /\ flightObjs' = [flightObjs EXCEPT ![flight] = booked.self]
              /\ IF booked.ret
                 THEN
                   LET ticket_number == MintTicketNumber(tickets)
                       ticket == Len(ticketObjs) + 1
                   IN
                   /\ ticketObjs' = Append(ticketObjs,
                          NewTicket(ticket_number, flight, passenger, seat_number,
                                    payment, paid.self.status))
                   /\ tickets' = DictSet(tickets, ticket_number, ticket)
                   /\ passengerObjs' = [passengerObjs EXCEPT
                          ![passenger] = add_ticket(passengerObjs[passenger], ticket)]
                   /\ call' = [n |-> call.n + 1, op |-> "book_flight", args |-> args, result |-> ticket]
                 ELSE
                   /\ ReturnNone
                   /\ UNCHANGED <<passengerObjs, ticketObjs, tickets>>
            ELSE
              /\ ReturnNone
              /\ UNCHANGED <<flightObjs, passengerObjs, ticketObjs, tickets>>
         /\ UNCHANGED <<flights, passengers>>
    /\ UNCHANGED threads

\* manager.book_flight(passenger_id, flight_number, seat_number, payment_method)
BookFlight(passenger_id, flight_number, seat_number, payment_method) ==
    /\ book_flight(passenger_id, flight_number, seat_number, payment_method)
    /\ UNCHANGED ui

Next ==
    \/ \E flight_number \in FlightNumbers : AddFlight(flight_number)
    \/ \E passenger_id \in PassengerIds : AddPassenger(passenger_id)
    \/ \E flight \in 1..Len(flightObjs), seat_number \in SeatInputs :
          BookSeat(flight, seat_number)
    \/ \E passenger_id \in PassengerIds, flight_number \in FlightNumbers,
          seat_number \in SeatInputs, payment_method \in PaymentMethods :
          BookFlight(passenger_id, flight_number, seat_number, payment_method)

Spec == Init /\ [][Next]_vars

\* the registry operations alone: add_flight, add_passenger, book_flight
NextRegistry ==
    \/ \E flight_number \in FlightNumbers : AddFlight(flight_number)
    \/ \E passenger_id \in PassengerIds : AddPassenger(passenger_id)
    \/ \E passenger_id \in PassengerIds, flight_number \in FlightNumbers,
          seat_number \in SeatInputs, payment_method \in PaymentMethods :
          BookFlight(passenger_id, flight_number, seat_number, payment_method)

SpecRegistry == Init /\ [][NextRegistry]_vars

-----------------------------------------------------------------------------
(* Concurrent execution: threads run book_flight one statement at a time   *)
(* on a registry set up with one flight and two passengers.                *)

InitConc ==
    /\ flightObjs = <<NewFlight("FL101", Route("FL101")[1], Route("FL101")[2])>>
    /\ passengerObjs = <<NewPassenger("P1"), NewPassenger("P2")>>
    /\ paymentObjs = <<>>
    /\ ticketObjs = <<>>
    /\ flights = DictSet(<<>>, "FL101", 1)
    /\ passengers = DictSet(DictSet(<<>>, "P1", 1), "P2", 2)
    /\ tickets = <<>>
    /\ call = [n |-> 0, op |-> "init", args |-> <<>>, result |-> None]
    /\ threads = [t \in Threads |-> IdleThread]
    /\ ui = IdleUi

\* thread t returns None
ReturnNone(t) == threads' = [threads EXCEPT ![t].pc = "done", ![t].result = None]

\* thread t enters book_flight(passenger_id, flight_number, seat_number, payment_method)
Enter(t, passenger_id, flight_number, seat_number, payment_method) ==
    /\ threads[t].pc = "idle"
    /\ threads' = [threads EXCEPT ![t].pc = "lookup",
                                  ![t].passenger_id = passenger_id,
                                  ![t].flight_number = flight_number,
                                  ![t].seat_number = seat_number,
                                  ![t].payment_method = payment_method]
    /\ UNCHANGED <<heapVars, registryVars, call, ui>>

\* passenger = self.passengers.get(...); flight = self.flights.get(...); if not ... return None
Lookup(t) ==
    /\ threads[t].pc = "lookup"
    /\ LET passenger == DictGet(passengers, threads[t].passenger_id)
           flight == DictGet(flights, threads[t].flight_number)
       IN IF passenger = None \/ flight = None
          THEN ReturnNone(t)
          ELSE threads' = [threads EXCEPT ![t].pc = "check",
                                          ![t].passenger = passenger,
                                          ![t].flight = flight]
    /\ UNCHANGED <<heapVars, registryVars, call, ui>>

\* if not flight.is_seat_available(seat_number): return None
SeatCheck(t) ==
    /\ threads[t].pc = "check"
    /\ IF ~is_seat_available(flightObjs[threads[t].flight], threads[t].seat_number)
       THEN ReturnNone(t)
       ELSE threads' = [threads EXCEPT ![t].pc = "pay"]
    /\ UNCHANGED <<heapVars, registryVars, call, ui>>

\* payment = Payment(200.0, payment_method); if payment.process():
Pay(t) ==
    /\ threads[t].pc = "pay"
    /\ LET paid == process(NewPayment(threads[t].payment_method))
       IN /\ paymentObjs' = Append(paymentObjs, paid.self)
          /\ IF paid.ret
             THEN threads' = [threads EXCEPT ![t].pc = "recheck",
                                             ![t].payment = Len(paymentObjs) + 1]
             ELSE ReturnNone(t)
    /\ UNCHANGED <<flightObjs, passengerObjs, ticketObjs, registryVars, call, ui>>

\* book_seat: if self.is_seat_available(seat_number); on False book_flight returns None
SeatRecheck(t) ==
    /\ threads[t].pc = "recheck"
    /\ IF is_seat_available(flightObjs[threads[t].flight], threads[t].seat_number)
       THEN threads' = [threads EXCEPT ![t].pc = "write"]
       ELSE ReturnNone(t)
    /\ UNCHANGED <<heapVars, registryVars, call, ui>>

\* book_seat: self.seats[seat_number] = False; return True
SeatWrite(t) ==
    /\ threads[t].pc = "write"
    /\ flightObjs' = [flightObjs EXCEPT ![threads[t].flight].seats =
                         MapSet(@, threads[t].seat_number, FALSE)]
    /\ threads' = [threads EXCEPT ![t].pc = "mint"]
    /\ UNCHANGED <<passengerObjs, paymentObjs, ticketObjs, registryVars, call, ui>>

\* ticket_number = f"TKT{len(self.tickets) + 1}"
Mint(t) ==
    /\ threads[t].pc = "mint"
    /\ threads' = [threads EXCEPT ![t].pc = "store",
                                  ![t].ticket_number = MintTicketNumber(tickets)]
    /\ UNCHANGED <<heapVars, registryVars, call, ui>>

\* ticket = Ticket(...); self.tickets[ticket_number] = ticket
Store(t) ==
    /\ threads[t].pc = "store"
    /\ LET ticket == Len(ticketObjs) + 1
       IN /\ ticketObjs' = Append(ticketObjs,
                 NewTicket(threads[t].ticket_number, threads[t].flight,
                           threads[t].passenger, threads[t].seat_number,
                           threads[t].payment, paymentObjs[threads[t].payment].status))
          /\ tickets' = DictSet(tickets, threads[t].ticket_number, ticket)
          /\ threads' = [threads EXCEPT ![t].pc = "append", ![t].ticket = ticket]
    /\ UNCHANGED <<flightObjs, passengerObjs, paymentObjs, flights, passengers, call, ui>>

\* passenger.add_ticket(ticket); return ticket
AppendAndReturn(t) ==
    /\ threads[t].pc = "append"
    /\ passengerObjs' = [passengerObjs EXCEPT ![threads[t].passenger] =
                            add_ticket(@, threads[t].ticket)]
    /\ threads' = [threads EXCEPT ![t].pc = "done", ![t].result = threads[t].ticket]
    /\ UNCHANGED <<flightObjs, paymentObjs, ticketObjs, registryVars, call, ui>>

NextConc ==
    \/ \E t \in Threads, passenger_id \in PassengerIds, flight_number \in FlightNumbers,
          seat_number \in SeatInputs, payment_method \in PaymentMethods :
          Enter(t, passenger_id, flight_number, seat_number, payment_method)
    \/ \E t \in Threads : Lookup(t)
    \/ \E t \in Threads : SeatCheck(t)
    \/ \E t \in Threads : Pay(t)
    \/ \E t \in Threads : SeatRecheck(t)
    \/ \E t \in Threads : SeatWrite(t)
    \/ \E t \in Threads : Mint(t)
    \/ \E t \in Threads : Store(t)
    \/ \E t \in Threads : AppendAndReturn(t)

SpecConc == InitConc /\ [][NextConc]_vars

-----------------------------------------------------------------------------
(* Views of the state used by the properties *)

\* the Ticket objects stored in the ticket table
StoredTickets == {tickets[i][2] : i \in 1..Len(tickets)}

\* the flight number a Ticket is for
FlightNumberOf(ticket) == flightObjs[ticketObjs[ticket].flight].flight_number

\* the last call was a book_flight that returned a ticket
BookedOk == call.op = "book_flight" /\ call.result # None

\* a seat that is taken or is not in the seat map
Unavailable(seats, seat_number) ==
    seat_number \notin DOMAIN seats \/ seats[seat_number] = FALSE

\* a step that is a call of the given operation
IsCall(op) == call'.n = call.n + 1 /\ call'.op = op

-----------------------------------------------------------------------------
(* C1: no two tickets of the ticket table are for the same flight number   *)
(* and the same seat number.                                               *)
C1_NoSeatSoldTwice ==
    \A t1, t2 \in StoredTickets :
        (/\ FlightNumberOf(t1) = FlightNumberOf(t2)
         /\ ticketObjs[t1].seat_number = ticketObjs[t2].seat_number)
        => t1 = t2

(* C3: a book_flight call that returns a ticket returns a CONFIRMED ticket *)
(* for the seat, flight and passenger of the request; right after the call *)
(* the ticket is in the ticket table under its number, is the last element *)
(* of the passenger's history, and the seat is unavailable on the flight.  *)
C3_SuccessfulBooking ==
    BookedOk =>
        LET ticket == ticketObjs[call.result]
        IN /\ ticket.status = "CONFIRMED"
           /\ ticket.seat_number = call.args[3]
           /\ ticket.flight # None
           /\ ticket.flight = DictGet(flights, call.args[2])
           /\ flightObjs[ticket.flight].flight_number = call.args[2]
           /\ ticket.passenger # None
           /\ ticket.passenger = DictGet(passengers, call.args[1])
           /\ passengerObjs[ticket.passenger].passenger_id = call.args[1]
           /\ DictGet(tickets, ticket.ticket_number) = call.result
           /\ LET history == passengerObjs[ticket.passenger].tickets
              IN Len(history) > 0 /\ history[Len(history)] = call.result
           /\ Unavailable(flightObjs[ticket.flight].seats, call.args[3])

C3_Witness ==
    /\ BookedOk
    /\ Len(ticketObjs) = 2
    /\ Len(passengerObjs[ticketObjs[call.result].passenger].tickets) = 2

(* C4: sequentially, the k-th successful book_flight issues TKT<k>, the    *)
(* ticket table holds as many tickets as there were successful bookings,   *)
(* and no booking overwrites an earlier entry of the table.                *)
C4_SequentialTicketNumbers ==
    /\ Len(tickets) = Len(ticketObjs)
    /\ \A k \in 1..Len(ticketObjs) :
          /\ ticketObjs[k].ticket_number = <<"T", "K", "T">> \o Str(k)
          /\ tickets[k] = <<ticketObjs[k].ticket_number, k>>
    /\ \A i, j \in 1..Len(tickets) : tickets[i][1] = tickets[j][1] => i = j
    /\ BookedOk => call.result = Len(ticketObjs)

C4_Witness ==
    /\ BookedOk
    /\ Len(tickets) = 2
    /\ ticketObjs[1].ticket_number = <<"T", "K", "T", "1">>
    /\ ticketObjs[2].ticket_number = <<"T", "K", "T", "2">>
    /\ call.result = 2

(* C6: sequentially, a book_flight call that returns None leaves the seat  *)
(* maps, both catalogs, the ticket table and every ticket history as they  *)
(* were.                                                                   *)
C6_FailedBookingChangesNothing ==
    [][(IsCall("book_flight") /\ call'.result = None)
         => UNCHANGED <<flightObjs, passengerObjs, ticketObjs, registryVars>>]_vars

\* a failed booking of a taken seat, of an unknown seat, by an unknown passenger
C6_Witness ==
    /\ call.op = "book_flight"
    /\ call.result = None
    /\ DictGet(passengers, call.args[1]) # None
    /\ DictGet(flights, call.args[2]) # None
    /\ call.args[3] \in SeatChoices
    /\ Len(tickets) > 0

(* C7: a book_flight call whose passenger or flight lookup fails, or whose *)
(* seat is taken or unknown, returns None without creating or processing a *)
(* Payment; a Payment is processed only after lookup and seat check passed.*)
C7_CheckBeforePayment ==
    [][IsCall("book_flight") =>
         LET passenger == DictGet(passengers, call'.args[1])
             flight == DictGet(flights, call'.args[2])
             passed == /\ passenger # None
                       /\ flight # None
                       /\ ~Unavailable(flightObjs[flight].seats, call'.args[3])
         IN IF passed
            THEN /\ Len(paymentObjs') = Len(paymentObjs) + 1
                 /\ paymentObjs'[Len(paymentObjs')].status = "COMPLETED"
                 /\ SubSeq(paymentObjs', 1, Len(paymentObjs)) = paymentObjs
            ELSE /\ paymentObjs' = paymentObjs
                 /\ call'.result = None]_vars

\* a call for a seat no flight has, by a registered passenger on a registered flight
C7_Witness ==
    /\ call.op = "book_flight"
    /\ call.result = None
    /\ DictGet(passengers, call.args[1]) # None
    /\ DictGet(flights, call.args[2]) # None
    /\ call.args[3] = UnknownSeat
    /\ Len(paymentObjs) = 1

(* C8: a seat of a flight that is unavailable stays unavailable in every   *)
(* later state.                                                            *)
C8_SeatsNeverFreed ==
    [][\A f \in 1..Len(flightObjs) :
         \A s \in DOMAIN flightObjs[f].seats :
            flightObjs[f].seats[s] = FALSE =>
               /\ f \in 1..Len(flightObjs')
               /\ s \in DOMAIN flightObjs'[f].seats
               /\ flightObjs'[f].seats[s] = FALSE]_vars

\* both asked-for seats of one flight taken, one by book_seat and one by book_flight
C8_Witness ==
    /\ call.n >= 3
    /\ Len(tickets) > 0
    /\ \E f \in 1..Len(flightObjs) :
          /\ \A s \in SeatChoices : flightObjs[f].seats[s] = FALSE
          /\ \E s \in SeatChoices :
                \A t \in StoredTickets :
                    ~(ticketObjs[t].flight = f /\ ticketObjs[t].seat_number = s)

(* C9: book_seat on an available seat returns true and makes that seat     *)
(* unavailable, leaving every other seat as it was; on a taken or unknown  *)
(* seat it returns false and leaves the seat map as it was, adding no key; *)
(* a second book_seat on the same seat returns false.                      *)
C9_BookSeat ==
    [][IsCall("book_seat") =>
         LET f == call'.args[1]
             s == call'.args[2]
             before == flightObjs[f].seats
             after == flightObjs'[f].seats
         IN /\ IF s \in DOMAIN before /\ before[s] = TRUE
               THEN /\ call'.result = TRUE
                    /\ DOMAIN after = DOMAIN before
                    /\ after[s] = FALSE
                    /\ \A x \in DOMAIN before : x # s => after[x] = before[x]
               ELSE /\ call'.result = FALSE
                    /\ after = before
            /\ (call.op = "book_seat" /\ call.args = call'.args) => call'.result = FALSE
            /\ \A g \in 1..Len(flightObjs) : g # f => flightObjs'[g] = flightObjs[g]
            /\ Len(flightObjs') = Len(flightObjs)]_vars

\* the second of two book_seat calls in a row, after the first took the seat
C9_Witness ==
    /\ call.op = "book_seat"
    /\ call.result = FALSE
    /\ call.args[2] \in SeatChoices
    /\ flightObjs[call.args[1]].seats[call.args[2]] = FALSE
    /\ Len(ticketObjs) = 0

(* C10: every flight has a seat map of exactly 180 seats, one for each row *)
(* 1..30 and letter A..F, all available when the flight is created; the    *)
(* set of seat ids of a flight never changes.                              *)
C10_SeatMap ==
    /\ \A f \in 1..Len(flightObjs) :
          /\ Cardinality(DOMAIN flightObjs[f].seats) = 180
          /\ \A row \in 1..30 : \A letter \in {"A", "B", "C", "D", "E", "F"} :
                SeatNumber(row, letter) \in DOMAIN flightObjs[f].seats
    /\ call.op = "add_flight" =>
          \A s \in DOMAIN flightObjs[Len(flightObjs)].seats :
              flightObjs[Len(flightObjs)].seats[s] = TRUE

\* a flight just created while an older flight has seats taken
C10_Witness ==
    /\ call.op = "add_flight"
    /\ Len(flightObjs) = 2
    /\ \E s \in SeatChoices : flightObjs[1].seats[s] = FALSE
    /\ Cardinality(DOMAIN flightObjs[1].seats) = 180
    /\ Cardinality(DOMAIN flightObjs[2].seats) = 180

-----------------------------------------------------------------------------
(* Properties of concurrent book_flight calls *)

AllDone == \A t \in Threads : threads[t].pc = "done"

\* the threads whose call returned a ticket
Winners == {t \in Threads : threads[t].pc = "done" /\ threads[t].result # None}

\* every call is by a registered passenger, for a seat of the registered flight
AllRegistered ==
    \A t \in Threads :
        /\ threads[t].passenger_id \in DictKeys(passengers)
        /\ threads[t].flight_number \in DictKeys(flights)
        /\ threads[t].seat_number \in SeatChoices

(* C2: of N >= 2 concurrent book_flight calls by registered passengers for *)
(* the same registered flight and the same initially available seat,       *)
(* exactly one returns a ticket and the others return None.                *)
C2_ExactlyOneWins ==
    (/\ AllDone
     /\ AllRegistered
     /\ \A t, u \in Threads :
           /\ threads[t].flight_number = threads[u].flight_number
           /\ threads[t].seat_number = threads[u].seat_number)
    => Cardinality(Winners) = 1

(* C5: of concurrent book_flight calls for different available seats,      *)
(* every successful call gets a ticket number no other issued ticket has,  *)
(* and the ticket table ends with one entry per successful call.           *)
C5_UniqueTicketNumbers ==
    (/\ AllDone
     /\ AllRegistered
     /\ \A t, u \in Threads :
           t # u => threads[t].seat_number # threads[u].seat_number)
    => /\ \A t, u \in Winners :
             t # u => threads[t].ticket_number # threads[u].ticket_number
       /\ Len(tickets) = Cardinality(Winners)

-----------------------------------------------------------------------------
(* Properties of the registry under sequential execution, continued *)

\* the keys of a dict in insertion order
KeyOrder(d) == [i \in 1..Len(d) |-> d[i][1]]

\* a dict after the entry of key k was replaced: same keys in the same order,
\* every other entry as it was
ReplacedIn(before, after, k, v) ==
    /\ KeyOrder(after) = KeyOrder(before)
    /\ \A i \in 1..Len(before) :
          after[i] = IF before[i][1] = k THEN <<k, v>> ELSE before[i]

(* C13: add_flight and add_passenger with a registered key replace the     *)
(* stored entry by the new object, keep the set of keys and their order,   *)
(* and leave every other entry, the ticket table and the tickets as they   *)
(* were.                                                                   *)
C13_ReAddOverwrites ==
    [][/\ (IsCall("add_flight") /\ call'.args[1] \in DictKeys(flights)) =>
            /\ Len(flightObjs') = Len(flightObjs) + 1
            /\ SubSeq(flightObjs', 1, Len(flightObjs)) = flightObjs
            /\ flightObjs'[Len(flightObjs')].flight_number = call'.args[1]
            /\ ReplacedIn(flights, flights', call'.args[1], Len(flightObjs'))
            /\ UNCHANGED <<passengers, tickets, ticketObjs, passengerObjs, paymentObjs>>
       /\ (IsCall("add_passenger") /\ call'.args[1] \in DictKeys(passengers)) =>
            /\ Len(passengerObjs') = Len(passengerObjs) + 1
            /\ SubSeq(passengerObjs', 1, Len(passengerObjs)) = passengerObjs
            /\ passengerObjs'[Len(passengerObjs')].passenger_id = call'.args[1]
            /\ ReplacedIn(passengers, passengers', call'.args[1], Len(passengerObjs'))
            /\ UNCHANGED <<flights, tickets, ticketObjs, flightObjs, paymentObjs>>]_vars

\* the first of two flight numbers re-added after a ticket was sold on it
C13_Witness ==
    /\ call.op = "add_flight"
    /\ Len(flights) = 2
    /\ Len(flightObjs) = 3
    /\ flights[1] = <<call.args[1], 3>>
    /\ Len(tickets) = 1
    /\ ticketObjs[1].flight = 1

(* C15: sequentially, book_flight returns a ticket if and only if the      *)
(* passenger id is registered, the flight number is registered and the     *)
(* seat is available on that flight at the time of the call; no call ends  *)
(* with a completed payment and no ticket.                                 *)
C15_TicketIffBookable ==
    [][IsCall("book_flight") =>
         LET passenger == DictGet(passengers, call'.args[1])
             flight == DictGet(flights, call'.args[2])
             bookable == /\ call'.args[1] \in DictKeys(passengers)
                         /\ call'.args[2] \in DictKeys(flights)
                         /\ ~Unavailable(flightObjs[flight].seats, call'.args[3])
         IN /\ (call'.result # None) <=> bookable
            /\ call'.result = None =>
                  ~\E p \in 1..Len(paymentObjs') :
                      /\ paymentObjs'[p].status = "COMPLETED"
                      /\ \A t \in 1..Len(ticketObjs') : ticketObjs'[t].payment # p]_vars

\* a booking that succeeds on a re-added flight after the same seat was sold before
C15_Witness ==
    /\ BookedOk
    /\ Len(flightObjs) = 2
    /\ Len(flights) = 1
    /\ Len(paymentObjs) = 2
    /\ ticketObjs[1].seat_number = ticketObjs[2].seat_number

\* the ticket history of a Passenger object, as a set, and the occurrences of a ticket in it
History(p) == {passengerObjs[p].tickets[i] : i \in 1..Len(passengerObjs[p].tickets)}
Occurrences(p, ticket) ==
    Cardinality({i \in 1..Len(passengerObjs[p].tickets) : passengerObjs[p].tickets[i] = ticket})

(* C16, as claimed: every ticket of the ticket table is exactly once in    *)
(* the history of the passenger currently registered under the ticket's    *)
(* passenger id and in no other passenger's history, and every ticket in a *)
(* registered passenger's history is in the ticket table.                  *)
C16_CurrentPassengerHoldsTicket ==
    /\ \A t \in StoredTickets :
          LET id == passengerObjs[ticketObjs[t].passenger].passenger_id
              current == DictGet(passengers, id)
          IN /\ current # None
             /\ Occurrences(current, t) = 1
             /\ \A p \in 1..Len(passengerObjs) : p # current => t \notin History(p)
    /\ \A i \in 1..Len(passengers) : History(passengers[i][2]) \subseteq StoredTickets

(* C16, amended: every ticket of the ticket table is exactly once in the   *)
(* history of the Passenger object it refers to, which was registered      *)
(* under its passenger id when it was booked, and in no other Passenger's  *)
(* history; every ticket in any Passenger's history is in the ticket table.*)
C16_BookingPassengerHoldsTicket ==
    /\ \A t \in StoredTickets :
          LET owner == ticketObjs[t].passenger
          IN /\ owner \in 1..Len(passengerObjs)
             /\ Occurrences(owner, t) = 1
             /\ \A p \in 1..Len(passengerObjs) : p # owner => t \notin History(p)
    /\ \A p \in 1..Len(passengerObjs) : History(p) \subseteq StoredTickets
    /\ BookedOk =>
          DictGet(passengers, call.args[1]) = ticketObjs[call.result].passenger

\* a passenger id re-added after a booking, and a booking by the new Passenger
C16_Witness ==
    /\ BookedOk
    /\ Len(passengerObjs) = 2
    /\ passengerObjs[1].passenger_id = passengerObjs[2].passenger_id
    /\ passengerObjs[1].tickets = <<1>>
    /\ passengerObjs[2].tickets = <<2>>

\* no flight number was added twice
NoFlightAddedTwice ==
    \A i, j \in 1..Len(flightObjs) :
        flightObjs[i].flight_number = flightObjs[j].flight_number => i = j

\* the unavailable seats of the registered flights, as <<Flight, seat number>>
TakenSeats ==
    UNION {{<<flights[i][2], s>> : s \in {x \in DOMAIN flightObjs[flights[i][2]].seats :
                                            flightObjs[flights[i][2]].seats[x] = FALSE}}
           : i \in 1..Len(flights)}

(* C17: when no flight number is added twice, a seat of a registered       *)
(* flight is unavailable exactly when the ticket table holds a ticket for  *)
(* that flight and seat, and the number of unavailable seats equals the    *)
(* number of stored tickets.                                               *)
C17_SeatsMatchTickets ==
    NoFlightAddedTwice =>
        /\ TakenSeats = {<<ticketObjs[t].flight, ticketObjs[t].seat_number>> : t \in StoredTickets}
        /\ \A t \in StoredTickets :
              /\ DictGet(flights, FlightNumberOf(t)) = ticketObjs[t].flight
              /\ ticketObjs[t].seat_number \in DOMAIN flightObjs[ticketObjs[t].flight].seats
        /\ Cardinality(TakenSeats) = Len(tickets)

\* two flights with one ticket each
C17_Witness ==
    /\ NoFlightAddedTwice
    /\ Len(flights) = 2
    /\ Len(tickets) = 2
    /\ ticketObjs[1].flight # ticketObjs[2].flight
    /\ Cardinality(TakenSeats) = 2

-----------------------------------------------------------------------------
(* src/Year_checker.py: the script reads a year, calls leap_year(year) and *)
(* then days_in_feb(year).                                                 *)

leap_year(year) == (year % 4 = 0 /\ year % 100 # 0) \/ year % 400 # 0

\* Python objects as compared by `is`: an int, and a function of the module
IntObject(n) == [kind |-> "int", name |-> Str(n)]
FunctionObject(name) == [kind |-> "function", name |-> name]
Is(a, b) == a.kind = b.kind /\ a.name = b.name

\* 29 if year is leap_year else 28
days_in_feb(year) ==
    IF Is(IntObject(year), FunctionObject(<<"leap_year">>)) THEN 29 ELSE 28

Years == 1..MaxYear

\* year = int(input(...)); if leap_year(year): ...
LeapYearCall(year) ==
    /\ call.op = "init"
    /\ call' = [n |-> call.n + 1, op |-> "leap_year", args |-> <<year>>,
                result |-> leap_year(year)]
    /\ UNCHANGED <<heapVars, registryVars, threads, ui>>

\* print(f"Feb of {year} has {days_in_feb(year)}")
DaysInFebCall ==
    /\ call.op = "leap_year"
    /\ call' = [n |-> call.n + 1, op |-> "days_in_feb", args |-> call.args,
                result |-> days_in_feb(call.args[1])]
    /\ UNCHANGED <<heapVars, registryVars, threads, ui>>

NextYear ==
    \/ \E year \in Years : LeapYearCall(year)
    \/ DaysInFebCall

SpecYear == Init /\ [][NextYear]_vars

(* C20: leap_year(year) is true exactly when year is divisible by 4 and    *)
(* not by 100, or divisible by 400; days_in_feb(year) is 29 exactly when   *)
(* leap_year(year) is true and 28 otherwise.                               *)
C20_LeapYear ==
    /\ call.op = "leap_year" =>
          (call.result <=>
              \/ (call.args[1] % 4 = 0 /\ call.args[1] % 100 # 0)
              \/ call.args[1] % 400 = 0)
    /\ call.op = "days_in_feb" =>
          call.result = (IF leap_year(call.args[1]) THEN 29 ELSE 28)


-----------------------------------------------------------------------------
(* The classes Payment and Ticket used directly, next to book_flight *)

\* Payment(200.0, payment_method)
CreatePayment(payment_method) ==
    /\ call.n < MaxCalls
    /\ paymentObjs' = Append(paymentObjs, NewPayment(payment_method))
    /\ call' = [n |-> call.n + 1, op |-> "Payment", args |-> <<payment_method>>,
                result |-> Len(paymentObjs) + 1]
    /\ UNCHANGED <<flightObjs, passengerObjs, ticketObjs, registryVars, threads, ui>>

\* payment.process() on a Payment object
ProcessPayment(payment) ==
    /\ call.n < MaxCalls
    /\ payment \in 1..Len(paymentObjs)
    /\ LET r == process(paymentObjs[payment])
       IN /\ paymentObjs' = [paymentObjs EXCEPT ![payment] = r.self]
          /\ call' = [n |-> call.n + 1, op |-> "process", args |-> <<payment>>, result |-> r.ret]
    /\ UNCHANGED <<flightObjs, passengerObjs, ticketObjs, registryVars, threads, ui>>

\* Ticket(ticket_number, flight, passenger, seat_number, payment): the object
\* is constructed and kept by the caller, not by the manager
CreateTicket(flight, passenger, seat_number, payment) ==
    /\ call.n < MaxCalls
    /\ flight \in 1..Len(flightObjs)
    /\ passenger \in 1..Len(passengerObjs)
    /\ payment \in 1..Len(paymentObjs)
    /\ ticketObjs' = Append(ticketObjs,
           NewTicket(TicketNumber(Len(ticketObjs) + 1), flight, passenger, seat_number,
                     payment, paymentObjs[payment].status))
    /\ call' = [n |-> call.n + 1, op |-> "Ticket", args |-> <<flight, passenger, seat_number, payment>>,
                result |-> Len(ticketObjs) + 1]
    /\ UNCHANGED <<flightObjs, passengerObjs, paymentObjs, registryVars, threads, ui>>

NextObjects ==
    \/ \E payment_method \in PaymentMethods : CreatePayment(payment_method)
    \/ \E payment \in 1..Len(paymentObjs) : ProcessPayment(payment)
    \/ \E payment \in 1..Len(paymentObjs) :
          CreateTicket(1, 1, SeatNumber(RowStart, "A"), payment)
    \/ \E seat_number \in SeatChoices :
          BookFlight("P1", "FL101", seat_number, "credit_card")

SpecObjects == InitConc /\ [][NextObjects]_vars

\* C12: a ticket's status is CONFIRMED exactly when its payment's status is
\* COMPLETED at the moment the ticket is constructed and PENDING otherwise, it
\* does not change afterwards, and every ticket in the ticket table is
\* CONFIRMED and has a COMPLETED payment
C12_TicketStatus ==
    [][/\ \A t \in 1..Len(ticketObjs') :
           IF t > Len(ticketObjs)
           THEN /\ paymentObjs'[ticketObjs'[t].payment].status = "COMPLETED"
                     => ticketObjs'[t].status = "CONFIRMED"
                /\ paymentObjs'[ticketObjs'[t].payment].status # "COMPLETED"
                     => ticketObjs'[t].status = "PENDING"
           ELSE ticketObjs'[t].status = ticketObjs[t].status
       /\ \A i \in 1..Len(tickets') :
           /\ ticketObjs'[tickets'[i][2]].status = "CONFIRMED"
           /\ paymentObjs'[ticketObjs'[tickets'[i][2]].payment].status = "COMPLETED"]_vars

\* a ticket constructed on a pending payment stays PENDING after the payment
\* completes, next to a CONFIRMED ticket stored by book_flight
C12_Witness ==
    /\ \E t \in 1..Len(ticketObjs) :
          /\ ticketObjs[t].status = "PENDING"
          /\ paymentObjs[ticketObjs[t].payment].status = "COMPLETED"
    /\ \E i \in 1..Len(tickets) : ticketObjs[tickets[i][2]].status = "CONFIRMED"

-----------------------------------------------------------------------------
(* FlightManager.search_flights *)

MaxSearchCalls == 4

UpperCase ==
    <<"A", "B", "C", "D", "E", "F", "G", "H", "I", "J", "K", "L", "M",
      "N", "O", "P", "Q", "R", "S", "T", "U", "V", "W", "X", "Y", "Z">>

LowerCase ==
    <<"a", "b", "c", "d", "e", "f", "g", "h", "i", "j", "k", "l", "m",
      "n", "o", "p", "q", "r", "s", "t", "u", "v", "w", "x", "y", "z">>

\* faulty variant: the string is left as it is
lower_identity(s) == s

\* str.lower on the letters A..Z; every other character is kept
lower(s) ==
    [i \in 1..Len(s) |->
        IF \E k \in 1..Len(UpperCase) : UpperCase[k] = s[i]
        THEN LowerCase[CHOOSE k \in 1..Len(UpperCase) : UpperCase[k] = s[i]]
        ELSE s[i]]

\* FlightManager.search_flights: the list of matching Flight objects, in the
\* order of self.flights.values()
search_flights(origin_city, destination_city) ==
    LET matches(flight) ==
            /\ lower(flightObjs[flight].origin) = lower(origin_city)
            /\ lower(flightObjs[flight].destination) = lower(destination_city)
    IN SelectSeq(DictValues(flights), matches)

\* city names as an Airport or a user may spell them
LONDON == <<"L", "O", "N", "D", "O", "N">>
london == <<"l", "o", "n", "d", "o", "n">>
PARIS == <<"P", "A", "R", "I", "S">>
paris == <<"p", "a", "r", "i", "s">>

AirportRoutes == {<<London, Paris>>, <<LONDON, paris>>, <<Paris, London>>}

SearchInputs == {<<london, PARIS>>, <<London, Paris>>, <<Paris, London>>, <<NewYork, London>>}

\* manager.add_flight(Flight(flight_number, origin, destination, ...))
AddFlightOn(flight_number, origin, destination) ==
    /\ call.n < MaxSearchCalls
    /\ LET flight == Len(flightObjs) + 1
       IN /\ flightObjs' = Append(flightObjs, NewFlight(flight_number, origin, destination))
          /\ flights' = DictSet(flights, flight_number, flight)
    /\ call' = [n |-> call.n + 1, op |-> "add_flight", args |-> <<flight_number>>, result |-> None]
    /\ UNCHANGED <<passengerObjs, paymentObjs, ticketObjs, passengers, tickets, threads, ui>>

\* manager.search_flights(origin_city, destination_city)
SearchFlights(origin_city, destination_city) ==
    /\ call.n < MaxSearchCalls
    /\ call' = [n |-> call.n + 1, op |-> "search_flights",
                args |-> <<origin_city, destination_city>>,
                result |-> search_flights(origin_city, destination_city)]
    /\ UNCHANGED <<heapVars, registryVars, threads, ui>>

NextSearch ==
    \/ \E flight_number \in FlightNumbers, route \in AirportRoutes :
          AddFlightOn(flight_number, route[1], route[2])
    \/ \E input \in SearchInputs : SearchFlights(input[1], input[2])

SpecSearch == Init /\ [][NextSearch]_vars

\* two strings are equal up to the case of their letters
SameIgnoringCase(a, b) ==
    /\ Len(a) = Len(b)
    /\ \A i \in 1..Len(a) :
          \/ a[i] = b[i]
          \/ \E k \in 1..Len(UpperCase) : {a[i], b[i]} = {UpperCase[k], LowerCase[k]}

\* the position of the first Flight created with this flight number
FirstAdded(flight_number) ==
    CHOOSE i \in 1..Len(flightObjs) :
        /\ flightObjs[i].flight_number = flight_number
        /\ \A j \in 1..(i - 1) : flightObjs[j].flight_number # flight_number

\* C11: search_flights returns exactly the registered flights whose origin
\* and destination city equal the arguments ignoring letter case, each once,
\* ordered by the first add of their flight numbers, the empty list when none
\* matches, and it changes no state
C11_SearchFlights ==
    [][IsCall("search_flights") =>
        LET result == call'.result
            Matching == {flights[i][2] : i \in
                            {j \in 1..Len(flights) :
                               /\ SameIgnoringCase(flightObjs[flights[j][2]].origin, call'.args[1])
                               /\ SameIgnoringCase(flightObjs[flights[j][2]].destination, call'.args[2])}}
        IN /\ {result[i] : i \in 1..Len(result)} = Matching
           /\ Len(result) = Cardinality(Matching)
           /\ \A i, j \in 1..Len(result) :
                 i < j => FirstAdded(flightObjs[result[i]].flight_number)
                            < FirstAdded(flightObjs[result[j]].flight_number)
           /\ (Matching = {} => result = <<>>)
           /\ UNCHANGED <<heapVars, registryVars>>]_vars

\* a search that returns two flights spelled in different case, the first of
\* them re-added after the second was added
C11_Witness ==
    /\ call.op = "search_flights"
    /\ Len(call.result) = 2
    /\ call.result[1] > call.result[2]
    /\ flightObjs[call.result[1]].origin # flightObjs[call.result[2]].origin

-----------------------------------------------------------------------------
(* InteractiveBooking.run_booking_process, one action per prompt or call *)

MaxRuns == 2

\* f"P{n}"
PassengerId(n) == <<"P">> \o Str(n)

\* process_payment: the menu of payment methods
payment_methods == ("1" :> "credit_card") @@ ("2" :> "debit_card") @@ ("3" :> "paypal")

\* what the user types at the two city prompts
CityInputs == {<<NewYork, London>>, <<london, PARIS>>, <<Paris, London>>}

\* main(): the manager holds the sample flights, no passenger and no ticket
InitMain ==
    /\ flightObjs = <<NewFlight("FL101", Route("FL101")[1], Route("FL101")[2]),
                      NewFlight("FL102", Route("FL102")[1], Route("FL102")[2])>>
    /\ passengerObjs = <<>>
    /\ paymentObjs = <<>>
    /\ ticketObjs = <<>>
    /\ flights = DictSet(DictSet(<<>>, "FL101", 1), "FL102", 2)
    /\ passengers = <<>>
    /\ tickets = <<>>
    /\ call = [n |-> 0, op |-> "init", args |-> <<>>, result |-> None]
    /\ threads = [t \in Threads |-> IdleThread]
    /\ ui = IdleUi

\* run_booking_process is entered and collect_passenger_info registers the user
CollectPassengerInfo ==
    /\ ui.pc \in {"idle", "ended", "confirmation", "error"}
    /\ ui.run < MaxRuns
    /\ LET passenger_id == PassengerId(Len(passengers) + 1)
           passenger == Len(passengerObjs) + 1
       IN /\ passengerObjs' = Append(passengerObjs, NewPassenger(passenger_id))
          /\ passengers' = DictSet(passengers, passenger_id, passenger)
          /\ ui' = [ui EXCEPT !.pc = "passenger", !.run = @ + 1,
                              !.current_passenger = passenger,
                              !.available_seats = {}, !.seat = <<>>,
                              !.payment = None, !.ticket = None, !.created = {}]
    /\ UNCHANGED <<flightObjs, paymentObjs, ticketObjs, flights, tickets, call, threads>>

\* InteractiveBooking.search_flights: the two prompts, the search and the choice
UiSearchFlights(origin, destination, choice) ==
    /\ ui.pc = "passenger"
    /\ LET available_flights == search_flights(origin, destination)
       IN IF available_flights = <<>>
          THEN ui' = [ui EXCEPT !.pc = "ended"]
          ELSE /\ choice \in 1..Len(available_flights)
               /\ ui' = [ui EXCEPT !.pc = "flight",
                                   !.selected_flight = available_flights[choice]]
    /\ UNCHANGED <<heapVars, registryVars, call, threads>>

\* select_seat: the list of available seats is taken once
ListSeats ==
    /\ ui.pc = "flight"
    /\ LET available_seats == get_available_seats(flightObjs[ui.selected_flight])
       IN IF available_seats = {}
          THEN ui' = [ui EXCEPT !.pc = "ended"]
          ELSE ui' = [ui EXCEPT !.pc = "seat_prompt", !.available_seats = available_seats]
    /\ UNCHANGED <<heapVars, registryVars, call, threads>>

\* select_seat: the prompt is repeated until the answer is in the list
SeatPrompt(seat_choice) ==
    /\ ui.pc = "seat_prompt"
    /\ IF seat_choice \in ui.available_seats
       THEN ui' = [ui EXCEPT !.pc = "seat", !.seat = seat_choice]
       ELSE UNCHANGED ui
    /\ UNCHANGED <<heapVars, registryVars, call, threads>>

\* process_payment: payment = Payment(200.0, payment_methods[choice])
UiCreatePayment(choice) ==
    /\ ui.pc = "seat"
    /\ LET payment == Len(paymentObjs) + 1
       IN /\ paymentObjs' = Append(paymentObjs, NewPayment(payment_methods[choice]))
          /\ ui' = [ui EXCEPT !.pc = "payment", !.payment = payment,
                              !.created = @ \cup {payment}]
    /\ UNCHANGED <<flightObjs, passengerObjs, ticketObjs, registryVars, call, threads>>

\* process_payment: if payment.process(): success is reported and the
\* payment returned, else None
UiProcessPayment ==
    /\ ui.pc = "payment"
    /\ LET r == process(paymentObjs[ui.payment])
       IN /\ paymentObjs' = [paymentObjs EXCEPT ![ui.payment] = r.self]
          /\ ui' = IF r.ret
                   THEN [ui EXCEPT !.pc = "paid"]
                   ELSE [ui EXCEPT !.pc = "ended", !.payment = None]
    /\ UNCHANGED <<flightObjs, passengerObjs, ticketObjs, registryVars, call, threads>>

\* run_booking_process: ticket = self.manager.book_flight(...), then the
\* confirmation or the error message
UiBookFlight ==
    /\ ui.pc = "paid"
    /\ book_flight(passengerObjs[ui.current_passenger].passenger_id,
                   flightObjs[ui.selected_flight].flight_number,
                   ui.seat,
                   paymentObjs[ui.payment].payment_method)
    /\ ui' = [ui EXCEPT !.pc = IF call'.result # None THEN "confirmation" ELSE "error",
                        !.ticket = call'.result,
                        !.created = @ \cup ((Len(paymentObjs) + 1)..Len(paymentObjs'))]

NextInteractive ==
    \/ CollectPassengerInfo
    \/ \E input \in CityInputs, choice \in 1..Len(flights) :
          UiSearchFlights(input[1], input[2], choice)
    \/ ListSeats
    \/ \E seat_choice \in SeatInputs : SeatPrompt(seat_choice)
    \/ \E choice \in DOMAIN payment_methods : UiCreatePayment(choice)
    \/ UiProcessPayment
    \/ UiBookFlight

SpecInteractive == InitMain /\ [][NextInteractive]_vars

\* C14: a Payment is PENDING from its creation until process() is called on
\* it, process() sets it to COMPLETED and returns true, the status never goes
\* back to PENDING and never is FAILED, and no Payment is processed twice in a
\* run of book_flight or of the booking workflow
C14_PaymentLifecycle ==
    [][/\ \A p \in 1..Len(paymentObjs') :
           /\ paymentObjs'[p].status # "FAILED"
           /\ paymentObjs'[p].processed <= 1
           /\ paymentObjs'[p].status = "PENDING" <=> paymentObjs'[p].processed = 0
           /\ paymentObjs'[p].status = "COMPLETED" <=> paymentObjs'[p].processed = 1
           /\ p <= Len(paymentObjs) =>
                 /\ paymentObjs[p].status = "COMPLETED" => paymentObjs'[p].status = "COMPLETED"
                 /\ paymentObjs'[p].processed >= paymentObjs[p].processed
       /\ (ui.pc = "payment" /\ ui'.pc # "payment") =>
             /\ ui'.pc = "paid"
             /\ paymentObjs[ui.payment].status = "PENDING"
             /\ paymentObjs'[ui.payment].status = "COMPLETED"]_vars

\* a finished run: the Payment of process_payment and the Payment of
\* book_flight are both COMPLETED and processed once
C14_Witness ==
    /\ ui.pc = "confirmation"
    /\ Len(paymentObjs) >= 2
    /\ \A p \in 1..Len(paymentObjs) :
          paymentObjs[p].status = "COMPLETED" /\ paymentObjs[p].processed = 1

\* C18: a run of the booking workflow that ends with a ticket has created and
\* processed exactly one Payment, and the ticket's payment is the Payment
\* whose success process_payment reported
C18_OnePaymentPerBooking ==
    ui.pc = "confirmation" =>
        /\ Cardinality(ui.created) = 1
        /\ ticketObjs[ui.ticket].payment = ui.payment

\* the position of a step in run_booking_process
Rank(pc) ==
    CASE pc = "passenger" -> 1
      [] pc = "flight" -> 2
      [] pc = "seat_prompt" -> 3
      [] pc = "seat" -> 4
      [] pc = "payment" -> 5
      [] pc = "paid" -> 6
      [] pc = "confirmation" -> 7
      [] OTHER -> 0

\* C19: in the booking workflow book_flight is called only after passenger
\* registration, flight selection, seat selection and payment succeeded in
\* that order; the passenger is registered, the flight is the registered one,
\* the seat is in a list of seats that still are available, so the call
\* returns a ticket and the booking error is never reported
C19_WorkflowOrder ==
    [][/\ ui'.pc # "error"
       /\ ui'.pc # ui.pc =>
             \/ ui'.pc = "passenger" /\ ui.pc \in {"idle", "ended", "confirmation"}
             \/ ui'.pc = "ended" /\ ui.pc \in {"passenger", "flight"}
             \/ Rank(ui.pc) > 0 /\ Rank(ui'.pc) = Rank(ui.pc) + 1
       /\ IsCall("book_flight") =>
             /\ ui.pc = "paid"
             /\ ui.current_passenger # None
             /\ DictGet(passengers, call'.args[1]) = ui.current_passenger
             /\ ui.selected_flight # None
             /\ DictGet(flights, call'.args[2]) = ui.selected_flight
             /\ call'.args[3] \in ui.available_seats
             /\ \A seat \in ui.available_seats : flightObjs[ui.selected_flight].seats[seat]
             /\ paymentObjs[ui.payment].status = "COMPLETED"
             /\ call'.result # None
             /\ ui'.pc = "confirmation"]_vars

\* a second run that ends with a ticket on the flight of the first run
C19_Witness ==
    /\ ui.pc = "confirmation"
    /\ ui.run = 2
    /\ Len(tickets) = 2
    /\ ticketObjs[tickets[1][2]].flight = ticketObjs[tickets[2][2]].flight

====
